---- MODULE Spec2Model ----
(***************************************************************************)
(* A model of package tcpraw (src/tcp.go): a packet connection that rides  *)
(* on a kernel-established TCP flow.  Dial opens a capture handle, lets    *)
(* the kernel do the handshake and starts the receiver goroutine; the      *)
(* receiver copies Seq/Ack of every captured segment into acknum/seqnum,   *)
(* derives the link-layer template once and forwards PSH payloads through  *)
(* the buffered channel chPacket; ReadFrom takes one payload from that     *)
(* channel; WriteTo builds a PSH+ACK segment from the two counters,        *)
(* injects it through the capture handle and adds len(p) to seqnum.        *)
(*                                                                         *)
(* The goroutines (receiver, a reader, the writers, the caller of Dial)    *)
(* are interleaved at their accesses to shared memory.  The peer, the      *)
(* capture source and the gopacket/pcap library calls are the environment. *)
(***************************************************************************)
EXTENDS Integers, Sequences, FiniteSets

\* ------------------------------------------------------------------ bounds
\* frames the capture source can deliver in one behaviour
MaxFrames == 2
\* calls of the API (ReadFrom, WriteTo, Close, Set...Deadline) made in one
\* behaviour
MaxCalls == 2
\* WriteTo calls made in one behaviour of the send path taken alone
MaxWrites == 1
\* frames delivered in one behaviour of the receive path taken alone
MaxReadFrames == 3
\* WriteTo calls made in one behaviour of two goroutines calling WriteTo
\* side by side
MaxRaceWrites == 2
\* capacity of chPacket; tcp.go:130 makes it 128, the model scales it down
ChanCap == 1

\* ------------------------------------------------------- values and helpers
\* seqnum and acknum are uint32 (tcp.go:31,33) and wrap at 2^32.  A uint32 is
\* kept as its two 16-bit halves [hi, lo], value hi * 2^16 + lo, so that the
\* full width is kept with numbers the model checker can hold.
Half == 65536

U32(hi, lo) == [hi |-> hi, lo |-> lo]

\* x + delta modulo 2^32, for 0 <= delta < 2^16
Plus32(x, delta) ==
    [hi |-> (x.hi + ((x.lo + delta) \div Half)) % Half,
     lo |-> (x.lo + delta) % Half]

\* the zero value of a uint32 field
Zero32 == U32(0, 0)

\* the goroutines that may call WriteTo concurrently
Writers == {"w1", "w2"}

\* payloads handed to WriteTo
WritePayloads == {<<7>>, <<8, 9>>}

\* lengths of the buffers handed to ReadFrom
BufLens == {0, 1, 3}

\* PSH flag and payload of a captured segment: a segment without PSH (its
\* payload is never looked at) and two pushed payloads of different lengths
FrameData ==
    { [psh |-> FALSE, payload |-> <<9>>],
      [psh |-> TRUE,  payload |-> <<1>>],
      [psh |-> TRUE,  payload |-> <<2, 3>>] }

\* link types of the interface the capture handle is opened on (tcp.go:69,
\* handle.LinkType() at tcp.go:109): Ethernet, loopback, or another one
LinkTypes == {"eth", "loop", "other"}

\* the link-layer envelope of the n-th frame captured on such an interface
\* (n counted from 0).  On Ethernet the first frame comes from the peer's
\* address and the later ones through another gateway, so that later frames
\* carry an envelope the template was not derived from.  With "other",
\* packet.Layer returns nil for both layer types asked for.
Envelope(lt, n) ==
    CASE lt = "eth" ->
            [type |-> "eth", src |-> IF n = 0 THEN "peerMAC" ELSE "gwMAC",
             dst |-> "myMAC", etype |-> "ipv4"]
      [] lt = "loop" -> [type |-> "loop", family |-> "inet"]
      [] OTHER -> [type |-> "other"]

\* the sequence number of the peer's first captured segment: the last one
\* before the wrap
PeerSeqs == {U32(Half - 1, Half - 1)}

\* the sequence number the handshake assigned to this side: the Ack number
\* of the peer's SYN-ACK.  Two below the wrap, so that writes wrap.
HandshakeSeqs == {U32(Half - 1, Half - 2)}

\* the nil gopacket.SerializableLayer (zero value of conn.linkLayer)
NoLink == [type |-> "nil"]

LocalPort == "lport"
RemotePort == "rport"

Min(a, b) == IF a <= b THEN a ELSE b

Zeros(n) == [i \in 1..n |-> 0]

VARIABLES
    dial,       \* where the caller of Dial is: connecting, waiting (wg.Wait),
                \* established (Dial returned conn), failed (Dial returned err)
    closed,     \* Close was called: tcpconn and ipconn are closed
    rdl, wdl,   \* read / write deadline of ipconn: "zero" or "past"
    seqnum,     \* conn.seqnum
    acknum,     \* conn.acknum
    linkLayer,  \* conn.linkLayer
    onceDone,   \* the receiver's sync.Once has run (and wg.Done was called)
    srcOpen,    \* the capture source still delivers packets
    capQ,       \* captured frames not yet taken by the receiver
    rcv,        \* the receiver goroutine: [pc, pkt]
    chPacket,   \* conn.chPacket, the buffered channel of payloads
    rd,         \* the goroutine calling ReadFrom: [pc, p, n, err, entry]
    wr,         \* the goroutines calling WriteTo: [pc, p, ack, seq, n, err,
                \* serErr, entry, ackAhead]; entry is what the connection was
                \* like when the call was made; ackAhead is whether the loaded
                \* Ack comes from a captured segment whose Ack number had not
                \* yet been stored into seqnum when seqnum was loaded
    wire,       \* history: what handle.WritePacketData has put on the wire
    pushed,     \* history: payloads of the PSH segments captured, in order
    delivered,  \* history: the packets ReadFrom received, in order
    iss,        \* the handshake-assigned sequence number of this side
    linkType,   \* link type of the capture interface
    peerNxt,    \* the sequence number the peer stamps on its next segment
    written,    \* history: total length of the payloads successfully written
    base,       \* history: value of the last store to seqnum (tcp.go:137)
    added,      \* history: total length added to seqnum since that store
    nFrames,    \* frames captured so far
    nCalls      \* API calls made so far

vars == <<dial, closed, rdl, wdl, seqnum, acknum, linkLayer, onceDone, srcOpen,
          capQ, rcv, chPacket, rd, wr, wire, pushed, delivered, iss, written,
          base, added, nFrames, nCalls, linkType, peerNxt>>

connVars == <<dial, closed, rdl, wdl>>
histVars == <<wire, pushed, delivered, written, base, added>>

NoPkt == [seq |-> Zero32, ack |-> Zero32, psh |-> FALSE, payload |-> <<>>, link |-> NoLink]

\* the connection as a call finds it: seqnum, the deadline that applies to the
\* call, and whether Close was called before
Entry(dl) == [seq |-> seqnum, dl |-> dl, closed |-> closed]

NoEntry == [seq |-> Zero32, dl |-> "zero", closed |-> FALSE]

IdleWriter == [pc |-> "idle", p |-> <<>>, ack |-> Zero32, seq |-> Zero32,
               n |-> 0, err |-> "nil", serErr |-> FALSE, entry |-> NoEntry,
               ackAhead |-> FALSE]

IdleReader == [pc |-> "idle", p |-> <<>>, n |-> 0, err |-> "nil", entry |-> NoEntry]

Init ==
    /\ dial = "connecting"
    /\ closed = FALSE
    /\ rdl = "zero" /\ wdl = "zero"
    /\ seqnum = Zero32 /\ acknum = Zero32
    /\ linkLayer = NoLink
    /\ onceDone = FALSE
    /\ srcOpen = TRUE
    /\ capQ = <<>>
    /\ rcv = [pc |-> "idle", pkt |-> NoPkt]
    /\ chPacket = <<>>
    /\ rd = IdleReader
    /\ wr = [w \in Writers |-> IdleWriter]
    /\ wire = <<>> /\ pushed = <<>> /\ delivered = <<>>
    /\ iss \in HandshakeSeqs
    /\ linkType \in LinkTypes
    /\ peerNxt \in PeerSeqs
    /\ written = 0 /\ base = Zero32 /\ added = 0
    /\ nFrames = 0 /\ nCalls = 0

\* a nil linkLayer makes gopacket.SerializeLayers call a method on a nil
\* interface: the process panics and nothing runs any more
Alive == \A w \in Writers : wr[w].pc # "panic"


\* ------------------------------------------------------------ environment
\* the sequence numbers that end a well-formed segment put on the wire
SegmentEnds == { Plus32(wire[i].seq, Len(wire[i].payload)) :
                    i \in {j \in DOMAIN wire : wire[j].ok} }

\* the peer acknowledges only what it can have received: nothing yet, or
\* everything up to the end of a segment this side has injected
HonestAcks == {iss} \cup SegmentEnds

\* the capture handle (opened at tcp.go:69) delivers one more frame of the
\* flow.  max bounds the frames delivered.
Capture(max) ==
    /\ Alive /\ srcOpen /\ dial # "failed"
    /\ nFrames < max
    /\ \E ack \in HonestAcks, d \in FrameData :
          /\ capQ' = Append(capQ, [seq |-> peerNxt, ack |-> ack, psh |-> d.psh,
                                    payload |-> d.payload,
                                    link |-> Envelope(linkType, nFrames)])
          /\ pushed' = IF d.psh THEN Append(pushed, d.payload) ELSE pushed
          /\ peerNxt' = Plus32(peerNxt, Len(d.payload))
    /\ nFrames' = nFrames + 1
    /\ UNCHANGED <<connVars, seqnum, acknum, linkLayer, onceDone, srcOpen, rcv,
                   chPacket, rd, wr, wire, delivered, iss, linkType, written, base,
                   added, nCalls>>

\* the capture source fails or ends: source.Packets() is closed once drained
SourceEnd ==
    /\ Alive /\ srcOpen /\ dial # "failed"
    /\ srcOpen' = FALSE
    /\ UNCHANGED <<connVars, seqnum, acknum, linkLayer, onceDone, capQ, rcv,
                   chPacket, rd, wr, histVars, iss, linkType, peerNxt, nFrames,
                   nCalls>>

\* ------------------------------------------------------------------- Dial
\* any of the steps of tcp.go:40-102 returns an error
DialFail ==
    /\ dial = "connecting"
    /\ dial' = "failed"
    /\ UNCHANGED <<closed, rdl, wdl, seqnum, acknum, linkLayer, onceDone, srcOpen,
                   capQ, rcv, chPacket, rd, wr, histVars, iss, linkType, peerNxt, nFrames, nCalls>>

\* tcp.go:105-109 and 128-132: the receiver goroutine is started, Dial goes on
\* to wg.Wait()
DialStart ==
    /\ dial = "connecting"
    /\ dial' = "waiting"
    /\ rcv' = [rcv EXCEPT !.pc = "next"]
    /\ UNCHANGED <<closed, rdl, wdl, seqnum, acknum, linkLayer, onceDone, srcOpen,
                   capQ, chPacket, rd, wr, histVars, iss, linkType, peerNxt, nFrames, nCalls>>

\* a faulty Dial: it returns the connection without waiting for the receiver
DialReturn_NoWait ==
    /\ dial = "waiting"
    /\ dial' = "established"
    /\ UNCHANGED <<closed, rdl, wdl, seqnum, acknum, linkLayer, onceDone, srcOpen,
                   capQ, rcv, chPacket, rd, wr, histVars, iss, linkType, peerNxt, nFrames, nCalls>>

\* wg.Wait() returns once the receiver has called wg.Done(); Dial returns
\* (conn, nil) whatever the receiver found
DialReturn ==
    /\ dial = "waiting" /\ onceDone
    /\ dial' = "established"
    /\ UNCHANGED <<closed, rdl, wdl, seqnum, acknum, linkLayer, onceDone, srcOpen,
                   capQ, rcv, chPacket, rd, wr, histVars, iss, linkType, peerNxt, nFrames, nCalls>>

\* --------------------------------------------------------------- receiver
\* tcp.go:136: acknum takes the segment's sequence number
StoredAck(pkt) == pkt.seq

\* a faulty receiver: seqnum never moves backwards
StoredSeq_Forward(pkt) ==
    IF \/ seqnum.hi < pkt.ack.hi
       \/ (seqnum.hi = pkt.ack.hi /\ seqnum.lo < pkt.ack.lo)
    THEN pkt.ack ELSE seqnum

\* tcp.go:137: seqnum takes the segment's acknowledgment number
StoredSeq(pkt) == pkt.ack

\* tcp.go:139-149: the template built from a frame's link-layer envelope
LinkTemplate(link) ==
    CASE link.type = "eth" ->
            [type |-> "eth", src |-> link.dst, dst |-> link.src, etype |-> link.etype]
      [] link.type = "loop" ->
            [type |-> "loop", family |-> link.family]
      [] OTHER -> NoLink

\* a faulty receiver: a send that finds the channel full is given up when
\* another packet is there
ReceiverStoreAck_Eager ==
    /\ Alive /\ capQ # <<>>
    /\ rcv.pc = "next" \/ (rcv.pc = "send" /\ Len(chPacket) >= ChanCap)
    /\ rcv' = [pc |-> "storeSeq", pkt |-> Head(capQ)]
    /\ capQ' = Tail(capQ)
    /\ acknum' = StoredAck(Head(capQ))
    /\ UNCHANGED <<connVars, seqnum, linkLayer, onceDone, srcOpen, chPacket, rd, wr,
                   histVars, iss, linkType, peerNxt, nFrames, nCalls>>

\* tcp.go:134-136: take the next packet and store its Seq into acknum
ReceiverStoreAck ==
    /\ Alive /\ rcv.pc = "next" /\ capQ # <<>>
    /\ rcv' = [pc |-> "storeSeq", pkt |-> Head(capQ)]
    /\ capQ' = Tail(capQ)
    /\ acknum' = StoredAck(Head(capQ))
    /\ UNCHANGED <<connVars, seqnum, linkLayer, onceDone, srcOpen, chPacket, rd, wr,
                   histVars, iss, linkType, peerNxt, nFrames, nCalls>>

\* tcp.go:137: store its Ack into seqnum
ReceiverStoreSeq ==
    /\ Alive /\ rcv.pc = "storeSeq"
    /\ seqnum' = StoredSeq(rcv.pkt)
    /\ base' = StoredSeq(rcv.pkt)
    /\ added' = 0
    /\ rcv' = [rcv EXCEPT !.pc = "once"]
    /\ UNCHANGED <<connVars, acknum, linkLayer, onceDone, srcOpen, capQ, chPacket,
                   rd, wr, wire, pushed, delivered, written, iss, linkType, peerNxt, nFrames, nCalls>>

\* a faulty receiver: the template is derived from every frame
ReceiverOnce_EveryFrame ==
    /\ Alive /\ rcv.pc = "once"
    /\ linkLayer' = LinkTemplate(rcv.pkt.link)
    /\ onceDone' = TRUE
    /\ rcv' = [rcv EXCEPT !.pc = IF rcv.pkt.psh THEN "send" ELSE "next"]
    /\ UNCHANGED <<connVars, seqnum, acknum, srcOpen, capQ, chPacket, rd, wr,
                   histVars, iss, linkType, peerNxt, nFrames, nCalls>>

\* a faulty receiver: every payload goes to the channel, PSH or not
ReceiverOnce_AlwaysSend ==
    /\ Alive /\ rcv.pc = "once"
    /\ linkLayer' = IF onceDone THEN linkLayer ELSE LinkTemplate(rcv.pkt.link)
    /\ onceDone' = TRUE
    /\ rcv' = [rcv EXCEPT !.pc = "send"]
    /\ UNCHANGED <<connVars, seqnum, acknum, srcOpen, capQ, chPacket, rd, wr,
                   histVars, iss, linkType, peerNxt, nFrames, nCalls>>

\* tcp.go:138-153: once.Do derives the template and calls wg.Done(); then the
\* PSH flag decides whether the payload goes to the channel
ReceiverOnce ==
    /\ Alive /\ rcv.pc = "once"
    /\ linkLayer' = IF onceDone THEN linkLayer ELSE LinkTemplate(rcv.pkt.link)
    /\ onceDone' = TRUE
    /\ rcv' = [rcv EXCEPT !.pc = IF rcv.pkt.psh THEN "send" ELSE "next"]
    /\ UNCHANGED <<connVars, seqnum, acknum, srcOpen, capQ, chPacket, rd, wr,
                   histVars, iss, linkType, peerNxt, nFrames, nCalls>>

\* a faulty receiver: a non-blocking send that drops the payload when the
\* channel is full
ReceiverSend_Drop ==
    /\ Alive /\ rcv.pc = "send"
    /\ chPacket' = IF Len(chPacket) < ChanCap
                   THEN Append(chPacket, rcv.pkt.payload) ELSE chPacket
    /\ rcv' = [rcv EXCEPT !.pc = "next"]
    /\ UNCHANGED <<connVars, seqnum, acknum, linkLayer, onceDone, srcOpen, capQ,
                   rd, wr, histVars, iss, linkType, peerNxt, nFrames, nCalls>>

\* a faulty receiver: the channel takes the payload even when it is full
ReceiverSend_NoBlock ==
    /\ Alive /\ rcv.pc = "send"
    /\ chPacket' = Append(chPacket, rcv.pkt.payload)
    /\ rcv' = [rcv EXCEPT !.pc = "next"]
    /\ UNCHANGED <<connVars, seqnum, acknum, linkLayer, onceDone, srcOpen, capQ,
                   rd, wr, histVars, iss, linkType, peerNxt, nFrames, nCalls>>

\* tcp.go:154: payloadChan <- transport.Payload blocks while the channel is full
ReceiverSend ==
    /\ Alive /\ rcv.pc = "send"
    /\ Len(chPacket) < ChanCap
    /\ chPacket' = Append(chPacket, rcv.pkt.payload)
    /\ rcv' = [rcv EXCEPT !.pc = "next"]
    /\ UNCHANGED <<connVars, seqnum, acknum, linkLayer, onceDone, srcOpen, capQ,
                   rd, wr, histVars, iss, linkType, peerNxt, nFrames, nCalls>>

\* tcp.go:134,156: the range loop ends when source.Packets() is closed
ReceiverExit ==
    /\ Alive /\ rcv.pc = "next" /\ capQ = <<>> /\ ~srcOpen
    /\ rcv' = [rcv EXCEPT !.pc = "done"]
    /\ UNCHANGED <<connVars, seqnum, acknum, linkLayer, onceDone, srcOpen, capQ,
                   chPacket, rd, wr, histVars, iss, linkType, peerNxt, nFrames, nCalls>>

Receiver ==
    \/ ReceiverStoreAck
    \/ ReceiverStoreSeq
    \/ ReceiverOnce
    \/ ReceiverSend
    \/ ReceiverExit


\* --------------------------------------------------------------- ReadFrom
\* a faulty ReadFrom: reports the length of the packet, not of what was copied
CopyN_PacketLen(p, packet) == Len(packet)

\* tcp.go:175: copy(p, packet) returns min(len(p), len(packet)) ...
CopyN(p, packet) == Min(Len(p), Len(packet))

\* ... and overwrites that many leading bytes of p
Copy(p, packet) ==
    [i \in 1..Len(p) |-> IF i <= CopyN(p, packet) THEN packet[i] ELSE p[i]]

\* tcp.go:174: the packet a receive from the channel yields, and what stays
ChanHead(ch) == Head(ch)
ChanRest(ch) == Tail(ch)

\* a caller enters ReadFrom with a buffer of some length
ReadCall ==
    /\ Alive /\ dial = "established" /\ rd.pc = "idle"
    /\ nCalls < MaxCalls
    /\ \E len \in BufLens :
          rd' = [pc |-> "recv", p |-> Zeros(len), n |-> 0, err |-> "nil",
                 entry |-> Entry(rdl)]
    /\ nCalls' = nCalls + 1
    /\ UNCHANGED <<connVars, seqnum, acknum, linkLayer, onceDone, srcOpen, capQ,
                   rcv, chPacket, wr, histVars, iss, linkType, peerNxt, nFrames>>

\* a ReadFrom on a channel that the receiver closes when it ends: the receive
\* yields a nil packet at once when the channel is closed and empty
ReadFrom_Closed ==
    /\ Alive /\ rd.pc = "recv"
    /\ chPacket # <<>> \/ rcv.pc = "done"
    /\ LET packet == IF chPacket # <<>> THEN ChanHead(chPacket) ELSE <<>> IN
          /\ rd' = [IdleReader EXCEPT !.p = Copy(rd.p, packet),
                                       !.n = CopyN(rd.p, packet), !.err = "nil"]
          /\ delivered' = IF chPacket # <<>> THEN Append(delivered, packet)
                          ELSE delivered
    /\ chPacket' = IF chPacket # <<>> THEN ChanRest(chPacket) ELSE chPacket
    /\ UNCHANGED <<connVars, seqnum, acknum, linkLayer, onceDone, srcOpen, capQ,
                   rcv, wr, wire, pushed, written, base, added, iss, linkType, peerNxt, nFrames, nCalls>>

\* tcp.go:174-176: the receive blocks while the channel is empty; then one
\* packet is taken, copied into p, and (n, addr, nil) is returned.  Neither
\* the deadlines nor Close are consulted.
ReadFrom ==
    /\ Alive /\ rd.pc = "recv"
    /\ chPacket # <<>>
    /\ LET packet == ChanHead(chPacket) IN
          /\ rd' = [IdleReader EXCEPT !.p = Copy(rd.p, packet),
                                       !.n = CopyN(rd.p, packet), !.err = "nil"]
          /\ delivered' = Append(delivered, packet)
    /\ chPacket' = ChanRest(chPacket)
    /\ UNCHANGED <<connVars, seqnum, acknum, linkLayer, onceDone, srcOpen, capQ,
                   rcv, wr, wire, pushed, written, base, added, iss, linkType, peerNxt, nFrames, nCalls>>

\* ---------------------------------------------------------------- WriteTo
\* a faulty header: Seq and Ack filled from the wrong counters
BuildTCP_Swapped(ack, seq, p, link, ok) ==
    [srcPort |-> LocalPort, dstPort |-> RemotePort,
     ack |-> seq, seq |-> ack, psh |-> TRUE, ackf |-> TRUE,
     payload |-> p, link |-> link, ok |-> ok]

\* tcp.go:201-208, 225-228: the frame handed to WritePacketData.  ok is
\* whether SerializeLayers succeeded; its error is dropped at tcp.go:227, so a
\* failed serialization still hands the buffer to the handle.
BuildTCP(ack, seq, p, link, ok) ==
    [srcPort |-> LocalPort, dstPort |-> RemotePort,
     ack |-> ack, seq |-> seq, psh |-> TRUE, ackf |-> TRUE,
     payload |-> p, link |-> link, ok |-> ok]

\* a faulty addition: 16-bit arithmetic, the carry into the high half is lost
AddUint32_NoCarry(x, delta) == [hi |-> x.hi, lo |-> (x.lo + delta) % Half]

\* tcp.go:232: atomic.AddUint32
AddUint32(x, delta) == Plus32(x, delta)

\* a WriteTo that takes a lock: a caller gets in only when no other is inside
WriteLoadAck_Locked(w, max) ==
    /\ Alive /\ dial = "established"
    /\ \A v \in Writers : wr[v].pc = "idle"
    /\ nCalls < max
    /\ \E p \in WritePayloads :
          wr' = [wr EXCEPT ![w] = [pc |-> "loadSeq", p |-> p, ack |-> acknum,
                                   seq |-> Zero32, n |-> 0, err |-> "nil",
                                   serErr |-> FALSE, entry |-> Entry(wdl),
                                   ackAhead |-> FALSE]]
    /\ nCalls' = nCalls + 1
    /\ UNCHANGED <<connVars, seqnum, acknum, linkLayer, onceDone, srcOpen, capQ,
                   rcv, chPacket, rd, histVars, iss, linkType, peerNxt, nFrames>>

\* tcp.go:184-205: a caller enters WriteTo; the first access to shared state is
\* the load of acknum.  The goroutines are interchangeable: w2 stands for one
\* that calls WriteTo while w1 is inside it.  max bounds the calls made.
WriteLoadAck(w, max) ==
    /\ Alive /\ dial = "established" /\ wr[w].pc = "idle"
    /\ w = "w2" => wr["w1"].pc # "idle"
    /\ nCalls < max
    /\ \E p \in WritePayloads :
          wr' = [wr EXCEPT ![w] = [pc |-> "loadSeq", p |-> p, ack |-> acknum,
                                   seq |-> Zero32, n |-> 0, err |-> "nil",
                                   serErr |-> FALSE, entry |-> Entry(wdl),
                                   ackAhead |-> FALSE]]
    /\ nCalls' = nCalls + 1
    /\ UNCHANGED <<connVars, seqnum, acknum, linkLayer, onceDone, srcOpen, capQ,
                   rcv, chPacket, rd, histVars, iss, linkType, peerNxt, nFrames>>

\* the receiver is between its two stores (tcp.go:136 and 137) for the
\* segment whose sequence number is ack
BetweenStores(ack) == rcv.pc = "storeSeq" /\ rcv.pkt.seq = ack

\* tcp.go:206: the load of seqnum
WriteLoadSeq(w) ==
    /\ Alive /\ wr[w].pc = "loadSeq"
    /\ wr' = [wr EXCEPT ![w].pc = "send", ![w].seq = seqnum,
                         ![w].ackAhead = BetweenStores(wr[w].ack)]
    /\ UNCHANGED <<connVars, seqnum, acknum, linkLayer, onceDone, srcOpen, capQ,
                   rcv, chPacket, rd, histVars, iss, linkType, peerNxt, nFrames, nCalls>>

\* tcp.go:227-230: SerializeLayers (a nil linkLayer panics; its error is
\* ignored), then WritePacketData; only the latter's error is returned
WriteSend(w) ==
    /\ Alive /\ wr[w].pc = "send"
    /\ IF linkLayer = NoLink
       THEN /\ wr' = [wr EXCEPT ![w].pc = "panic"]
            /\ wire' = wire
       ELSE \E serOk, injOk \in BOOLEAN :
              IF injOk
              THEN /\ wire' = Append(wire, BuildTCP(wr[w].ack, wr[w].seq, wr[w].p,
                                                    linkLayer, serOk))
                   /\ wr' = [wr EXCEPT ![w].pc = "add", ![w].serErr = ~serOk]
              ELSE /\ wire' = wire
                   /\ wr' = [wr EXCEPT ![w] = [IdleWriter EXCEPT
                                       !.serErr = ~serOk, !.n = 0, !.err = "inject"]]
    /\ UNCHANGED <<connVars, seqnum, acknum, linkLayer, onceDone, srcOpen, capQ,
                   rcv, chPacket, rd, pushed, delivered, written, base, added,
                   iss, linkType, peerNxt, nFrames, nCalls>>

\* a faulty WriteTo: stores the loaded Seq plus len(p) instead of adding
\* atomically
WriteAdd_Store(w) ==
    /\ Alive /\ wr[w].pc = "add"
    /\ seqnum' = AddUint32(wr[w].seq, Len(wr[w].p))
    /\ wr' = [wr EXCEPT ![w] = [IdleWriter EXCEPT
                                   !.n = Len(wr[w].p), !.err = "nil"]]
    /\ written' = written + Len(wr[w].p)
    /\ added' = added + Len(wr[w].p)
    /\ UNCHANGED <<connVars, acknum, linkLayer, onceDone, srcOpen, capQ, rcv,
                   chPacket, rd, wire, pushed, delivered, base, iss, linkType, peerNxt, nFrames, nCalls>>

\* tcp.go:232-233: seqnum is advanced atomically and (len(p), nil) returned
WriteAdd(w) ==
    /\ Alive /\ wr[w].pc = "add"
    /\ seqnum' = AddUint32(seqnum, Len(wr[w].p))
    /\ wr' = [wr EXCEPT ![w] = [IdleWriter EXCEPT
                                   !.n = Len(wr[w].p), !.err = "nil"]]
    /\ written' = written + Len(wr[w].p)
    /\ added' = added + Len(wr[w].p)
    /\ UNCHANGED <<connVars, acknum, linkLayer, onceDone, srcOpen, capQ, rcv,
                   chPacket, rd, wire, pushed, delivered, base, iss, linkType, peerNxt, nFrames, nCalls>>

WriteTo(w, max) ==
    \/ WriteLoadAck(w, max)
    \/ WriteLoadSeq(w)
    \/ WriteSend(w)
    \/ WriteAdd(w)

\* ------------------------------------------------------ Close and deadlines
\* tcp.go:238-241: closes tcpconn and ipconn; neither the capture handle nor
\* chPacket is touched
Close ==
    /\ Alive /\ dial = "established"
    /\ nCalls < MaxCalls
    /\ nCalls' = nCalls + 1
    /\ closed' = TRUE
    /\ UNCHANGED <<dial, rdl, wdl, seqnum, acknum, linkLayer, onceDone, srcOpen,
                   capQ, rcv, chPacket, rd, wr, histVars, iss, linkType, peerNxt, nFrames>>

\* the times given to the deadline setters: times in the past
Deadlines == {"past"}

\* tcp.go:263: the deadline is set on ipconn (an error, and no change, once
\* ipconn is closed)
SetDeadline ==
    /\ Alive /\ dial = "established"
    /\ nCalls < MaxCalls
    /\ nCalls' = nCalls + 1
    /\ \E t \in Deadlines :
          /\ rdl' = IF closed THEN rdl ELSE t
          /\ wdl' = IF closed THEN wdl ELSE t
    /\ UNCHANGED <<dial, closed, seqnum, acknum, linkLayer, onceDone, srcOpen,
                   capQ, rcv, chPacket, rd, wr, histVars, iss, linkType, peerNxt, nFrames>>

\* tcp.go:268
SetReadDeadline ==
    /\ Alive /\ dial = "established"
    /\ nCalls < MaxCalls
    /\ nCalls' = nCalls + 1
    /\ \E t \in Deadlines : rdl' = IF closed THEN rdl ELSE t
    /\ UNCHANGED <<dial, closed, wdl, seqnum, acknum, linkLayer, onceDone, srcOpen,
                   capQ, rcv, chPacket, rd, wr, histVars, iss, linkType, peerNxt, nFrames>>

\* tcp.go:275
SetWriteDeadline ==
    /\ Alive /\ dial = "established"
    /\ nCalls < MaxCalls
    /\ nCalls' = nCalls + 1
    /\ \E t \in Deadlines : wdl' = IF closed THEN wdl ELSE t
    /\ UNCHANGED <<dial, closed, rdl, seqnum, acknum, linkLayer, onceDone, srcOpen,
                   capQ, rcv, chPacket, rd, wr, histVars, iss, linkType, peerNxt, nFrames>>

\* ---------------------------------------------------------- specification
Next ==
    \/ Capture(MaxFrames)
    \/ SourceEnd
    \/ DialFail
    \/ DialStart
    \/ DialReturn
    \/ Receiver
    \/ ReadCall
    \/ ReadFrom
    \/ \E w \in Writers : WriteTo(w, MaxCalls)
    \/ Close
    \/ SetDeadline
    \/ SetReadDeadline
    \/ SetWriteDeadline

Spec == Init /\ [][Next]_vars

\* the receive path alone: establishment, the capture source, the receiver
\* and the callers of ReadFrom
NextRead ==
    \/ Capture(MaxReadFrames)
    \/ SourceEnd
    \/ DialFail
    \/ DialStart
    \/ DialReturn
    \/ Receiver
    \/ ReadCall
    \/ ReadFrom

ReadSpec == Init /\ [][NextRead]_vars

\* the send path alone: establishment, a capture source that does not end,
\* the receiver and the callers of WriteTo
NextWrite ==
    \/ Capture(MaxFrames)
    \/ DialFail
    \/ DialStart
    \/ DialReturn
    \/ ReceiverStoreAck
    \/ ReceiverStoreSeq
    \/ ReceiverOnce
    \/ ReceiverSend
    \/ \E w \in Writers : WriteTo(w, MaxWrites)

WriteSpec == Init /\ [][NextWrite]_vars

\* two goroutines calling WriteTo side by side on a connection that has
\* captured the one frame Dial waits for and no other
NextRace ==
    \/ Capture(1)
    \/ DialFail
    \/ DialStart
    \/ DialReturn
    \/ ReceiverStoreAck
    \/ ReceiverStoreSeq
    \/ ReceiverOnce
    \/ ReceiverSend
    \/ \E w \in Writers : WriteTo(w, MaxRaceWrites)

RaceSpec == Init /\ [][NextRace]_vars

\* the Go scheduler runs every goroutine that can take a step; the peer, the
\* capture source and the callers of the API are under no obligation
FairSpec ==
    /\ Spec
    /\ WF_vars(Receiver)
    /\ WF_vars(DialReturn)
    /\ WF_vars(ReadFrom)
    /\ \A w \in Writers : WF_vars(WriteLoadSeq(w) \/ WriteSend(w) \/ WriteAdd(w))

\* the same scheduling on the receive path alone
FairReadSpec ==
    /\ ReadSpec
    /\ WF_vars(Receiver)
    /\ WF_vars(DialReturn)
    /\ WF_vars(ReadFrom)


\* ================================================================== claims

\* ------------------------------------------------------------------- C1
\* C1 (as claimed): Close unblocks pending operations.  A ReadFrom that was
\* waiting on the channel, or a WriteTo that was in progress, when Close was
\* called eventually returns with an error.
C1_CloseUnblocks ==
    /\ (closed /\ rd.pc = "recv" /\ ~rd.entry.closed)
          ~> (rd.pc = "idle" /\ rd.err # "nil")
    /\ \A w \in Writers :
          (closed /\ wr[w].pc \in {"loadSeq", "send", "add"} /\ ~wr[w].entry.closed)
             ~> (wr[w].pc = "idle" /\ wr[w].err # "nil")

\* ------------------------------------------------------------------- C2
\* C2 (as claimed): a ReadFrom called when the read deadline is a time in the
\* past receives no payload, and a WriteTo called when the write deadline is a
\* time in the past puts no segment on the wire.
C2_PastDeadlineFails ==
    [][ /\ (rd.pc = "recv" /\ rd.entry.dl = "past") => delivered' = delivered
        /\ \A w \in Writers :
              (wr[w].pc = "send" /\ wr[w].entry.dl = "past") => wire' = wire ]_vars

\* ------------------------------------------------------------------- C3
\* the pushed payloads among a sequence of frames, in order
RECURSIVE PshPayloads(_)
PshPayloads(frames) ==
    IF frames = <<>> THEN <<>>
    ELSE (IF Head(frames).psh THEN <<Head(frames).payload>> ELSE <<>>)
            \o PshPayloads(Tail(frames))

\* the pushed payload the receiver holds between taking a packet and sending
\* its payload to the channel
InHand ==
    IF rcv.pc \in {"storeSeq", "once", "send"} /\ rcv.pkt.psh
    THEN <<rcv.pkt.payload>> ELSE <<>>

C4_SeqAdvancesFromCall ==
    [][ \A w \in Writers :
          (wr[w].pc = "add" /\ wr'[w].pc = "idle") =>
             /\ wr'[w].n = Len(wr[w].p)
             /\ seqnum' = Plus32(wr[w].entry.seq, Len(wr[w].p)) ]_vars

\* C4 (amended): a successful WriteTo of p returns (len(p), nil), and its
\* atomic add moves seqnum to the value it held just before the add plus
\* len(p), mod 2^32.
C4_SeqAdvancesByLen ==
    [][ \A w \in Writers :
          (wr[w].pc = "add" /\ wr'[w].pc = "idle") =>
             /\ wr'[w].n = Len(wr[w].p)
             /\ wr'[w].err = "nil"
             /\ seqnum' = Plus32(seqnum, Len(wr[w].p)) ]_vars

\* a two-byte write has wrapped seqnum from 2^32 - 2 to 0
C4_Witness ==
    /\ \E w \in Writers : wr[w].pc = "idle" /\ wr[w].err = "nil" /\ wr[w].n = 2
    /\ written = 2
    /\ base = iss /\ added = 2
    /\ seqnum = Zero32

\* ------------------------------------------------------------------- C5
\* C5 (as claimed): WriteTo is all-or-nothing.  When serialization or
\* injection fails, WriteTo returns (0, err), nothing is put on the wire and
\* seqnum and acknum stay as they are.
C5_WriteAllOrNothing ==
    [][ \A w \in Writers :
          (/\ wr[w].pc = "send"
           /\ wr'[w].pc # "send"
           /\ (wr'[w].serErr \/ wr'[w].err # "nil")) =>
             /\ wr'[w].pc = "idle"
             /\ wr'[w].n = 0
             /\ wr'[w].err # "nil"
             /\ wire' = wire
             /\ seqnum' = seqnum
             /\ acknum' = acknum ]_vars

\* ------------------------------------------------------------------- C6
\* C6: the Ack and Seq fields of a segment are the values acknum and seqnum
\* hold when WriteTo loads them; the segment WriteTo injects carries them,
\* has PSH and ACK set, the ports of the flow and the caller's payload; and no
\* step of WriteTo changes acknum.
C6_SegmentFields ==
    [][ /\ \A w \in Writers :
             /\ (wr[w].pc = "idle" /\ wr'[w].pc = "loadSeq") => wr'[w].ack = acknum
             /\ (wr[w].pc = "loadSeq" /\ wr'[w].pc = "send") =>
                   wr'[w].seq = seqnum /\ wr'[w].ack = wr[w].ack
             /\ (wr[w].pc = "send" /\ wr'[w].pc = "add") =>
                   /\ Len(wire') = Len(wire) + 1
                   /\ SubSeq(wire', 1, Len(wire)) = wire
                   /\ LET s == wire'[Len(wire')] IN
                         /\ s.seq = wr[w].seq /\ s.ack = wr[w].ack
                         /\ s.psh /\ s.ackf
                         /\ s.srcPort = LocalPort /\ s.dstPort = RemotePort
                         /\ s.payload = wr[w].p
        /\ wire' # wire => \E w \in Writers : wr[w].pc = "send" /\ wr'[w].pc = "add"
        /\ wr' # wr => acknum' = acknum ]_vars

\* a segment is on the wire whose Seq is where this side's sequence started
\* and whose Ack is the sequence number of the peer's last segment
C6_Witness ==
    /\ wire # <<>>
    /\ wire[1].ok
    /\ wire[1].seq = iss
    /\ wire[1].ack = acknum
    /\ wire[1].ack # wire[1].seq

\* ------------------------------------------------------------------- C7
\* C7 (as claimed): Dial never hands out a connection whose link-layer
\* template is absent.
C7_EstablishedHasLink ==
    dial = "established" => linkLayer # NoLink

\* ------------------------------------------------------------------- C8
\* C8 (as claimed): Closed is terminal, and reading and writing end with it.
\* Once Close has been called the connection stays closed; a ReadFrom called
\* after it receives no payload, and a WriteTo called after it neither puts a
\* segment on the wire nor advances seqnum.
C8_ClosedIsTerminal ==
    [][ /\ closed => closed'
        /\ (rd.pc = "recv" /\ rd.entry.closed) => delivered' = delivered
        /\ \A w \in Writers :
              (wr[w].entry.closed /\ wr'[w] # wr[w]) =>
                 wire' = wire /\ seqnum' = seqnum ]_vars

\* ------------------------------------------------------------------- C9
\* C9: a ReadFrom that returns has removed exactly the first packet of the
\* channel, returns n = min(len(p), len(packet)) and a nil error, has copied
\* the first n bytes of the packet to the front of p and left the rest of p
\* alone; the rest of the packet is gone with it.
C9_ReadCopies ==
    [][ (rd.pc = "recv" /\ rd'.pc = "idle") =>
          LET packet == Head(chPacket)
              n == rd'.n
          IN /\ chPacket' = Tail(chPacket)
             /\ n = Min(Len(rd.p), Len(packet))
             /\ 0 <= n /\ n <= Len(rd.p)
             /\ rd'.err = "nil"
             /\ Len(rd'.p) = Len(rd.p)
             /\ \A i \in 1..n : rd'.p[i] = packet[i]
             /\ \A i \in (n + 1)..Len(rd.p) : rd'.p[i] = rd.p[i] ]_vars

\* a two-byte packet was read into a one-byte buffer: one byte came back and
\* nothing of the packet is left in the channel
C9_Witness ==
    /\ rd.pc = "idle" /\ rd.n = 1 /\ rd.p = <<2>>
    /\ delivered = <<(<<2, 3>>)>>
    /\ chPacket = <<>>

\* ------------------------------------------------------------------ C10
\* C10 (as claimed): on an established connection, whenever no WriteTo is in
\* progress, seqnum is the handshake-assigned sequence number plus the total
\* length of the payloads written so far, mod 2^32.
C10_SeqIsStartPlusWritten ==
    (dial = "established" /\ \A w \in Writers : wr[w].pc = "idle")
        => seqnum = Plus32(iss, written)

\* C10 (amended): seqnum is the Ack number of the captured segment the
\* receiver stored last (zero before the first) plus the total length of the
\* payloads whose WriteTo completed since that store, mod 2^32.
C10_SeqIsLastAckPlusAdded ==
    seqnum = Plus32(base, added)

\* after a write completed, a segment acknowledging nothing of it was
\* processed: seqnum is back at the handshake-assigned value
C10_Witness ==
    /\ dial = "established"
    /\ written > 0
    /\ added = 0
    /\ seqnum = iss
    /\ rcv.pc = "next"

\* ------------------------------------------------------------------ C11
\* C11 (as claimed): acknum is the next sequence number expected from the
\* peer.  Once the receiver has taken an in-order segment with sequence
\* number S and L payload bytes, and until it takes the next one, acknum is
\* S + L mod 2^32.
C11_AckIsNextExpected ==
    rcv.pc \in {"storeSeq", "once", "send"} =>
        acknum = Plus32(rcv.pkt.seq, Len(rcv.pkt.payload))

\* ------------------------------------------------------------------ C12
\* C12: for every captured segment the receiver takes, whatever its flags and
\* whatever the counters held, acknum becomes the segment's sequence number
\* and then seqnum becomes its acknowledgment number; segments are taken in
\* capture order, and acknum keeps the sequence number of the segment taken
\* last.
C12_LastWriterWins ==
    /\ [][ /\ (rcv.pc = "next" /\ rcv'.pc = "storeSeq") =>
                 /\ rcv'.pkt = Head(capQ)
                 /\ capQ' = Tail(capQ)
                 /\ acknum' = Head(capQ).seq
           /\ (rcv.pc = "storeSeq" /\ rcv'.pc = "once") =>
                 /\ seqnum' = rcv.pkt.ack
                 /\ acknum' = acknum ]_vars
    /\ [](rcv.pc \in {"storeSeq", "once", "send"} => acknum = rcv.pkt.seq)

\* a segment without PSH whose Ack number is behind seqnum was processed
\* after a write had completed: seqnum went back to the segment's Ack number
C12_Witness ==
    /\ rcv.pc = "once" /\ ~rcv.pkt.psh
    /\ written > 0
    /\ seqnum = rcv.pkt.ack /\ seqnum = iss
    /\ acknum = rcv.pkt.seq

\* ------------------------------------------------------------------ C13
\* C13: chPacket never holds more than its capacity; the receiver leaves its
\* send only by appending the payload it holds to a channel that has room,
\* and stays where it is while the channel is full; and every PSH payload
\* captured for a running receiver is eventually in the channel or has been
\* received by a ReadFrom, unless the channel is full and no ReadFrom is
\* waiting on it.
C13_BoundedNoDrop ==
    /\ [](Len(chPacket) <= ChanCap)
    /\ [][ /\ (rcv.pc = "send" /\ rcv'.pc # "send") =>
                 /\ Len(chPacket) < ChanCap
                 /\ chPacket' = Append(chPacket, rcv.pkt.payload)
           /\ (rcv.pc = "send" /\ Len(chPacket) = ChanCap) => rcv' = rcv ]_vars
    /\ \A k \in 1..MaxReadFrames :
          (Len(pushed) >= k /\ rcv.pc # "idle")
             ~> \/ Len(delivered) + Len(chPacket) >= k
                \/ (Len(chPacket) = ChanCap /\ rd.pc = "idle")

\* three PSH payloads were captured, more than the channel holds: two have
\* been read and the third is in the channel
C13_Witness ==
    /\ Len(pushed) = 3
    /\ delivered = SubSeq(pushed, 1, 2)
    /\ chPacket = <<pushed[3]>>
    /\ rcv.pc = "next"

\* ------------------------------------------------------------------ C14
\* C14: a payload is enqueued if and only if its segment carries PSH.  After
\* the two stores (which every segment gets) the receiver goes on to the send
\* exactly when the segment it holds has PSH, and otherwise turns to the next
\* segment with chPacket as it was; chPacket grows only by the receiver
\* appending the payload of the PSH segment it holds.
C14_EnqueueIffPush ==
    /\ [][ /\ (rcv.pc = "once" /\ rcv'.pc # "once") =>
                 /\ rcv'.pc = (IF rcv.pkt.psh THEN "send" ELSE "next")
                 /\ chPacket' = chPacket
           /\ Len(chPacket') > Len(chPacket) =>
                 /\ rcv.pc = "send" /\ rcv.pkt.psh
                 /\ chPacket' = Append(chPacket, rcv.pkt.payload)
           /\ (rcv.pc = "send" /\ rcv'.pc # "send") =>
                 chPacket' = Append(chPacket, rcv.pkt.payload) ]_vars
    /\ [](rcv.pc = "send" => rcv.pkt.psh)
    /\ [](rcv.pc = "once" => acknum = rcv.pkt.seq /\ seqnum = rcv.pkt.ack)

\* two segments were processed, one with PSH and one without: the channel
\* holds the payload of the first and nothing else
C14_Witness ==
    /\ nFrames = 2 /\ capQ = <<>> /\ rcv.pc = "next"
    /\ Len(pushed) = 1
    /\ chPacket = pushed
    /\ delivered = <<>>

\* ------------------------------------------------------------------ C15
\* C15: the link-layer template is derived exactly once, from the first
\* captured frame.  It is written only by the receiver's first pass through
\* once.Do, while it holds the first frame; from then on it never changes; and
\* it is the first frame's Ethernet header with source and destination
\* swapped, or the first frame's loopback family (and stays absent when the
\* first frame has neither envelope).
C15_TemplateOnce ==
    /\ [][ /\ onceDone => (linkLayer' = linkLayer /\ onceDone')
           /\ linkLayer' # linkLayer =>
                 /\ rcv.pc = "once" /\ ~onceDone /\ onceDone'
                 /\ nFrames - Len(capQ) = 1
                 /\ rcv.pkt.link = Envelope(linkType, 0) ]_vars
    /\ [](~onceDone => linkLayer = NoLink)
    /\ [](onceDone =>
            LET first == Envelope(linkType, 0) IN
               CASE linkType = "eth" ->
                       linkLayer = [type |-> "eth", src |-> first.dst,
                                    dst |-> first.src, etype |-> first.etype]
                 [] linkType = "loop" ->
                       linkLayer = [type |-> "loop", family |-> first.family]
                 [] OTHER -> linkLayer = NoLink)

\* on Ethernet a second frame, which came through another gateway, has been
\* processed: the template still addresses the sender of the first frame
C15_Witness ==
    /\ linkType = "eth"
    /\ nFrames >= 2 /\ capQ = <<>> /\ rcv.pc = "next"
    /\ onceDone
    /\ linkLayer.dst = "peerMAC" /\ linkLayer.src = "myMAC"

\* ------------------------------------------------------------------ C16
\* C16: backpressure.  While the receiver is blocked sending to a full
\* channel, the segments that arrive only queue up behind it: seqnum, acknum
\* and the receiver stay as they are and chPacket changes only by a ReadFrom
\* taking its first packet.  Once the channel has room the receiver leaves the
\* send, and the queued segments are taken one by one from the front, all of
\* them unless the receiver is blocked again with no ReadFrom waiting.
C16_Backpressure ==
    /\ [][ /\ (rcv.pc = "send" /\ Len(chPacket) = ChanCap) =>
                 /\ seqnum' = seqnum /\ acknum' = acknum /\ rcv' = rcv
                 /\ \/ chPacket' = chPacket
                    \/ /\ rd.pc = "recv" /\ rd'.pc = "idle"
                       /\ chPacket' = Tail(chPacket)
                 /\ Len(capQ') >= Len(capQ)
                 /\ SubSeq(capQ', 1, Len(capQ)) = capQ
           /\ Len(capQ') < Len(capQ) =>
                 /\ capQ' = Tail(capQ)
                 /\ rcv'.pkt = Head(capQ) ]_vars
    /\ (rcv.pc = "send" /\ Len(chPacket) < ChanCap) ~> (rcv.pc # "send")
    /\ (capQ # <<>> /\ rcv.pc # "idle")
          ~> \/ capQ = <<>>
             \/ (rcv.pc = "send" /\ Len(chPacket) = ChanCap /\ rd.pc = "idle")

\* the receiver is blocked on a full channel with no ReadFrom waiting, and a
\* segment that arrived later is queued behind it: acknum is still the
\* sequence number of the segment the receiver holds
C16_Witness ==
    /\ rcv.pc = "send" /\ Len(chPacket) = ChanCap
    /\ rd.pc = "idle"
    /\ capQ # <<>>
    /\ acknum = rcv.pkt.seq
    /\ acknum # Head(capQ).seq

\* ------------------------------------------------------------------ C17
\* C17: the connection does not serialize concurrent writers.  While one
\* goroutine is inside WriteTo nothing keeps another from entering it (as
\* long as calls are still being made); a WriteTo that loads seqnum while
\* another holds the same value, loaded and not yet added, gets that value
\* too; and each of them puts its segment on the wire with the sequence
\* number it loaded.
C17_WritersNotSerialized ==
    /\ []((/\ Alive /\ dial = "established"
           /\ wr["w1"].pc \in {"loadSeq", "send", "add"}
           /\ wr["w2"].pc = "idle"
           /\ nCalls < MaxRaceWrites)
             => ENABLED WriteLoadAck("w2", MaxRaceWrites))
    /\ [][ \A w, v \in Writers :
             /\ (/\ w # v
                 /\ wr[v].pc \in {"send", "add"} /\ wr[v].seq = seqnum
                 /\ wr[w].pc = "loadSeq" /\ wr'[w].pc = "send")
                   => wr'[w].seq = wr[v].seq
             /\ (wr[w].pc = "send" /\ wr'[w].pc = "add")
                   => wire'[Len(wire')].seq = wr[w].seq ]_vars

\* two WriteTo calls that ran side by side have both returned without error:
\* their two segments carry the same sequence number, and seqnum has advanced
\* by the length of both
C17_Witness ==
    /\ Len(wire) = 2
    /\ wire[1].ok /\ wire[2].ok
    /\ wire[1].seq = wire[2].seq
    /\ \A w \in Writers : wr[w].pc = "idle" /\ wr[w].err = "nil" /\ wr[w].n > 0
    /\ seqnum = Plus32(wire[1].seq, Len(wire[1].payload) + Len(wire[2].payload))

FramesStored ==
    nFrames - Len(capQ) - (IF rcv.pc = "storeSeq" THEN 1 ELSE 0)

\* C19: Dial returns the connection only after the receiver has processed the
\* first captured segment and gone through once.Do.  Whenever the connection
\* is established or a WriteTo is running, acknum and seqnum have been stored
\* from a captured segment and once.Do is over; WriteTo is entered on an
\* established connection only; and the step that goes through once.Do for
\* the first time, the only one that writes the template, is taken while Dial
\* has not returned and no WriteTo is running.
C19_DialWaitsForFirstFrame ==
    /\ []((dial = "established" \/ \E w \in Writers : wr[w].pc # "idle") =>
             /\ onceDone
             /\ FramesStored >= 1)
    /\ [][ /\ \A w \in Writers :
                 (wr[w].pc = "idle" /\ wr'[w].pc # "idle") => dial = "established"
           /\ (linkLayer' # linkLayer \/ onceDone' # onceDone) =>
                 /\ dial \in {"connecting", "waiting"}
                 /\ \A w \in Writers : wr[w].pc = "idle" ]_vars

\* the first WriteTo has been entered on a connection that has captured one
\* segment: both stores for it are done and the template is there
C19_Witness ==
    /\ wr["w1"].pc = "loadSeq"
    /\ nFrames = 1 /\ FramesStored = 1
    /\ onceDone /\ linkLayer # NoLink
    /\ seqnum = iss /\ wr["w1"].ack = acknum

\* ------------------------------------------------------------------ C20
\* C20 (as claimed): the (Seq, Ack) pair of an outgoing segment is a
\* consistent snapshot.  WriteTo never puts on the wire a segment whose Ack
\* is the sequence number of a captured segment k while its Seq was loaded
\* before the receiver stored k's acknowledgment number into seqnum.
C20_ConsistentSnapshot ==
    [][ \A w \in Writers :
          (wr[w].pc = "send" /\ wr'[w].pc = "add") => ~wr[w].ackAhead ]_vars

====
